---- MODULE Spec2Model ----
(***************************************************************************)
(* Model of the guide-bot cross-channel relay: the tag transcoder          *)
(* (src/app.ts), the message-created orchestration                         *)
(* (src/events/messageCreateTranslate.ts) and the message-updated          *)
(* orchestration (src/events/messageUpdateTranslate.ts).                   *)
(*                                                                         *)
(* Strings are sequences of one-character strings.                         *)
(***************************************************************************)
EXTENDS Integers, Sequences, FiniteSets, TLC

\* ------------------------------------------------------------------------
\* Bounds
\* ------------------------------------------------------------------------
MaxLen == 6

Alphabet == {"<", ">", ":", "@", "1", "a"}

Strings(n) == UNION {[1..k -> Alphabet] : k \in 0..n}

\* ------------------------------------------------------------------------
\* String helpers (JavaScript String methods used by the source)
\* ------------------------------------------------------------------------
\* String.prototype.substring(from, to) with 0-based half-open indices
substring(s, from, to) == SubSeq(s, from + 1, to)

RECURSIVE join(_)
\* Array.prototype.join('') of an array of strings
join(tokens) ==
  IF tokens = <<>> THEN <<>> ELSE Head(tokens) \o join(Tail(tokens))

DigitChars == <<"0", "1", "2", "3", "4", "5", "6", "7", "8", "9">>

RECURSIVE numberToString(_)
\* the decimal rendering of a counter inside a template literal
numberToString(n) ==
  IF n < 10 THEN <<DigitChars[n + 1]>>
  ELSE numberToString(n \div 10) \o <<DigitChars[(n % 10) + 1]>>

\* ------------------------------------------------------------------------
\* DISCORD_TAG_REGEX = /<[:@][\d:]*>/g
\* ------------------------------------------------------------------------
IsDigit(ch) == \E i \in 1..10 : DigitChars[i] = ch

RECURSIVE bodyEnd(_, _)
\* 0-based index of the first character at or after p that is not in [\d:]
bodyEnd(s, p) ==
  IF p < Len(s) /\ (IsDigit(s[p + 1]) \/ s[p + 1] = ":")
  THEN bodyEnd(s, p + 1) ELSE p

\* length of the match of the pattern anchored at 0-based index p, 0 if none
DISCORD_TAG_REGEX(s, p) ==
  IF /\ p + 1 < Len(s)
     /\ s[p + 1] = "<"
     /\ s[p + 2] \in {":", "@"}
  THEN LET e == bodyEnd(s, p + 2)
       IN IF e < Len(s) /\ s[e + 1] = ">" THEN e + 1 - p ELSE 0
  ELSE 0

RECURSIVE matchAll(_, _)
\* message.matchAll(DISCORD_TAG_REGEX) resumed at 0-based index p:
\* the leftmost non-overlapping matches, as [index, length] records
matchAll(s, p) ==
  IF p >= Len(s) THEN <<>>
  ELSE LET n == DISCORD_TAG_REGEX(s, p)
       IN IF n > 0 THEN <<[index |-> p, length |-> n]>> \o matchAll(s, p + n)
          ELSE matchAll(s, p + 1)

\* ------------------------------------------------------------------------
\* tagTranscoder
\* ------------------------------------------------------------------------
EmptyTable == [k \in {} |-> <<>>]

\* Map.prototype.set
MapSet(tagTable, key, value) ==
  [k \in (DOMAIN tagTable) \cup {key} |-> IF k = key THEN value ELSE tagTable[k]]

\* encode with the counter never incremented
encodeStep_SameKey(message, st, match) ==
  LET token == substring(message, st.lastIndex, match.index)
      key   == <<"<", ":">> \o numberToString(st.counter) \o <<">">>
      tag   == substring(message, match.index, match.index + match.length)
  IN [tokens    |-> st.tokens \o <<token, key>>,
      lastIndex |-> match.index + match.length,
      counter   |-> st.counter,
      tagTable  |-> MapSet(st.tagTable, key, tag)]

\* encode with lastIndex left at the start of the match
encodeStep_NoAdvance(message, st, match) ==
  LET token == substring(message, st.lastIndex, match.index)
      key   == <<"<", ":">> \o numberToString(st.counter) \o <<">">>
      tag   == substring(message, match.index, match.index + match.length)
  IN [tokens    |-> st.tokens \o <<token, key>>,
      lastIndex |-> match.index,
      counter   |-> st.counter + 1,
      tagTable  |-> MapSet(st.tagTable, key, tag)]

\* one iteration of the loop of encode
encodeStep(message, st, match) ==
  LET token == substring(message, st.lastIndex, match.index)
      key   == <<"<", ":">> \o numberToString(st.counter) \o <<">">>
      tag   == substring(message, match.index, match.index + match.length)
  IN [tokens    |-> st.tokens \o <<token, key>>,
      lastIndex |-> match.index + match.length,
      counter   |-> st.counter + 1,
      tagTable  |-> MapSet(st.tagTable, key, tag)]

RECURSIVE encodeLoop(_, _, _)
encodeLoop(message, st, matches) ==
  IF matches = <<>> THEN st
  ELSE encodeLoop(message, encodeStep(message, st, Head(matches)), Tail(matches))

encode(message) ==
  LET st == encodeLoop(message,
                       [tokens |-> <<>>, lastIndex |-> 0, counter |-> 0,
                        tagTable |-> EmptyTable],
                       matchAll(message, 0))
  IN [text     |-> join(st.tokens \o <<substring(message, st.lastIndex, Len(message))>>),
      tagTable |-> st.tagTable]

\* decode leaving a match that is no key of the table in place
decodeStep_KeepUnknown(message, tagTable, st, match) ==
  LET token == substring(message, st.lastIndex, match.index)
      key   == substring(message, match.index, match.index + match.length)
  IN [tokens    |-> st.tokens \o
                    <<token, IF key \in DOMAIN tagTable THEN tagTable[key] ELSE key>>,
      lastIndex |-> match.index + match.length]

\* one iteration of the loop of decode
decodeStep(message, tagTable, st, match) ==
  LET token == substring(message, st.lastIndex, match.index)
      key   == substring(message, match.index, match.index + match.length)
  IN [tokens    |-> st.tokens \o
                    <<token, IF key \in DOMAIN tagTable THEN tagTable[key] ELSE <<>> >>,
      lastIndex |-> match.index + match.length]

RECURSIVE decodeLoop(_, _, _, _)
decodeLoop(message, tagTable, st, matches) ==
  IF matches = <<>> THEN st
  ELSE decodeLoop(message, tagTable,
                  decodeStep(message, tagTable, st, Head(matches)), Tail(matches))

decode(message, tagTable) ==
  LET st == decodeLoop(message, tagTable,
                       [tokens |-> <<>>, lastIndex |-> 0],
                       matchAll(message, 0))
  IN join(st.tokens \o <<substring(message, st.lastIndex, Len(message))>>)

\* ------------------------------------------------------------------------
\* The guild: channels, languages, users
\* ------------------------------------------------------------------------
Channels == {"c1", "c2", "c3"}

\* ids in client.channels.cache whose type is ChannelType.GuildText
GuildText == Channels

\* a channel id that a topology entry may still name after the channel is gone
GoneChannel == "cx"

Langs ==
  [c1 |-> [sourceLang |-> "en", targetLang |-> "en-US"],
   c2 |-> [sourceLang |-> "it", targetLang |-> "it"],
   c3 |-> [sourceLang |-> "ja", targetLang |-> "ja"]]

\* message.author.id of the human user, as the digits of the snowflake
UserId == <<"1">>

\* message.client.user.id
ClientUserId == <<"8">>

\* message.author.id of a message posted through one of this process's webhooks
WebhookUserId == <<"9">>

MaxHuman == 1
MaxMsgs == 6
MaxEdits == 1
MaxDeletes == 1
MaxReplies == 1
MaxKeys == 2
MaxPieces == 3

\* the topologies (ChannelLink documents) the guild may be configured with;
\* links is the ordered array ChannelLink.links, as channel ids
NoLink == [ok |-> FALSE, links |-> <<>>]
Link(l) == [ok |-> TRUE, links |-> l]

\* c1 relays to two channels, c1 and c2 are linked both ways, c2 still names
\* a channel that is gone, c3 has no ChannelLink document
Topologies ==
  { [c1 |-> Link(<<"c2", "c3">>), c2 |-> Link(<<"c1", GoneChannel>>), c3 |-> NoLink] }

\* the sets of channels that have a TranslateChannel document
Configured == { {"c1", "c2", "c3"}, {"c1", "c2"} }

\* what a human may post: text with a mention, an attachment without text,
\* a sticker
Posts ==
  { [content |-> <<"a", "<", "@", "1", ">">>, sticker |-> FALSE],
    [content |-> <<>>, sticker |-> FALSE],
    [content |-> <<>>, sticker |-> TRUE] }

\* what a human may change the content of a message to
EditContents == { <<"b", "<", "@", "1", ">">>, <<" ">>, <<>> }

StickerUrl == <<"sticker.webp">>

\* what a human may reply with: also a text without a mention
ReplyPosts == Posts \cup { [content |-> <<"a">>, sticker |-> FALSE] }

\* ------------------------------------------------------------------------
\* State
\* ------------------------------------------------------------------------
VARIABLES
  translateChannels,  \* channel id -> TranslateChannel document or absent
  channelLinks,       \* channel id -> ChannelLink document or absent
  webhookCache,       \* channels with a cached webhook handle
  messages,           \* the platform's messages; the id of a message is its index
                      \* (origin: the message a copy was posted for, original:
                      \* the content it was posted with, both for the properties)
  exec,               \* one message-created orchestration per message
  edit,               \* the message-updated orchestration
  editCount,          \* message-updated events delivered so far
  store,              \* the MessageLink collection, in insertion order
  tpc, tmessage, tencoded, tdecoded   \* the transcoder harness

ovars == <<translateChannels, channelLinks, webhookCache, messages, exec, edit,
           editCount, store>>

tvars == <<tpc, tmessage, tencoded, tdecoded>>

vars == <<translateChannels, channelLinks, webhookCache, messages, exec, edit,
          editCount, store, tpc, tmessage, tencoded, tdecoded>>

\* ------------------------------------------------------------------------
\* Collaborators and pure helpers of messageCreateTranslate.ts
\* ------------------------------------------------------------------------
\* String.prototype.trim() === ''
IsBlank(content) == \A i \in 1..Len(content) : content[i] = " "

\* String.prototype.includes
includes(content, part) ==
  \E i \in 0..(Len(content) - Len(part)) :
     substring(content, i, i + Len(part)) = part

\* translator.translateText(...).text when the provider answers: the text
\* rendered in the target language, placeholders left in place
translateText(text, sourceLang, targetLang) ==
  <<sourceLang \o ">" \o targetLang>> \o text

\* translate returning the provider's text without decoding it
translate_NoDecode(content, sourceLang, targetLang) ==
  IF IsBlank(content)
  THEN [defined |-> FALSE, text |-> <<>>]
  ELSE [defined |-> TRUE,
        text |-> translateText(encode(content).text, sourceLang, targetLang)]

\* translate(content, sourceLang, targetLang) when the provider answers
translate(content, sourceLang, targetLang) ==
  IF IsBlank(content)
  THEN [defined |-> FALSE, text |-> <<>>]
  ELSE LET enc == encode(content)
       IN [defined |-> TRUE,
           text |-> decode(translateText(enc.text, sourceLang, targetLang),
                           enc.tagTable)]

\* the number of translator.translateText calls translate makes
translateCallsOf(content) == IF IsBlank(content) THEN 0 ELSE 1

mention(authorId) == <<"<", "@">> \o authorId \o <<">">>

\* addReplyPing(content, authorId); authorId = <<>> stands for undefined
addReplyPing(content, authorId) ==
  IF authorId = <<>> THEN content
  ELSE IF ~content.defined \/ content.text = <<>>
       THEN [defined |-> TRUE, text |-> mention(authorId)]
  ELSE IF includes(content.text, mention(authorId)) THEN content
  ELSE [defined |-> TRUE, text |-> content.text \o <<" ">> \o mention(authorId)]

\* the first index of a non-empty set of indices, 0 for none
firstIndex(S) == IF S = {} THEN 0 ELSE CHOOSE i \in S : \A j \in S : i <= j

\* a lookup by the document's own messageId and channelId fields only
findByLink_OriginOnly(docs, messageId, channelId) ==
  firstIndex({i \in 1..Len(docs) : /\ docs[i].messageId = messageId
                                    /\ docs[i].channelId = channelId})

\* MessageLink.findOne({links: {$elemMatch: {messageId, channelId}}}): index or 0
findByLink(docs, messageId, channelId) ==
  LET Test(d) == \E j \in 1..Len(d.links) :
                    /\ d.links[j].messageId = messageId
                    /\ d.links[j].channelId = channelId
  IN firstIndex({i \in 1..Len(docs) : Test(docs[i])})

\* MessageLink.findOne({messageId}): index or 0
findByMessageId(docs, messageId) ==
  firstIndex({i \in 1..Len(docs) : docs[i].messageId = messageId})

\* messageLink.links.find(({channelId}) => channelId === replyChannel.id): index or 0
findLink(links, channelId) ==
  firstIndex({i \in 1..Len(links) : links[i].channelId = channelId})

\* buildReplyEmbed throwing where no MessageLink holds the replied-to message
\* or the document has no link for the channel
buildReplyEmbed_AbsentThrows(message, replyChannel) ==
  IF message.reference = 0 THEN [throws |-> FALSE, message |-> 0]
  ELSE IF messages[message.reference].deleted THEN [throws |-> TRUE, message |-> 0]
  ELSE LET d == findByLink(store, message.reference, message.channelId)
       IN IF d = 0 THEN [throws |-> TRUE, message |-> 0]
          ELSE LET l == findLink(store[d].links, replyChannel)
               IN IF l = 0 THEN [throws |-> TRUE, message |-> 0]
                  ELSE LET r == store[d].links[l].messageId
                       IN IF messages[r].deleted
                          THEN [throws |-> TRUE, message |-> 0]
                          ELSE [throws |-> FALSE, message |-> r]

\* buildReplyEmbed(message, replyChannel) when every fetch it makes answers:
\* the id of the message the preview is built from, 0 for no preview, and
\* throws where a fetched message no longer exists
buildReplyEmbed(message, replyChannel) ==
  IF message.reference = 0 THEN [throws |-> FALSE, message |-> 0]
  ELSE IF messages[message.reference].deleted THEN [throws |-> TRUE, message |-> 0]
  ELSE LET d == findByLink(store, message.reference, message.channelId)
       IN IF d = 0 THEN [throws |-> FALSE, message |-> 0]
          ELSE LET l == findLink(store[d].links, replyChannel)
               IN IF l = 0 THEN [throws |-> FALSE, message |-> 0]
                  ELSE LET r == store[d].links[l].messageId
                       IN IF messages[r].deleted
                          THEN [throws |-> TRUE, message |-> 0]
                          ELSE [throws |-> FALSE, message |-> r]

\* replyAuthorId without the author.bot test
replyAuthorId_AnyAuthor(reply) ==
  IF reply = 0 THEN <<>> ELSE messages[reply].authorId

\* replyAuthorId of translateChannel; <<>> stands for undefined
replyAuthorId(reply) ==
  IF reply = 0 THEN <<>>
  ELSE IF ~messages[reply].bot THEN messages[reply].authorId ELSE <<>>

\* ------------------------------------------------------------------------
\* Initial state
\* ------------------------------------------------------------------------
NoEncoded == [text |-> <<>>, tagTable |-> EmptyTable]

IdleEdit == [pc |-> "idle", messageId |-> 0, content |-> <<>>, branches |-> <<>>]

TagIdle ==
  /\ tpc = "off"
  /\ tmessage = <<>>
  /\ tencoded = NoEncoded
  /\ tdecoded = <<>>

OrchIdle ==
  /\ webhookCache = {}
  /\ messages = <<>>
  /\ exec = <<>>
  /\ edit = IdleEdit
  /\ editCount = 0
  /\ store = <<>>

Init ==
  /\ \E t \in Topologies : channelLinks = t
  /\ \E cfg \in Configured :
       translateChannels = [c \in Channels |->
          [ok |-> c \in cfg,
           sourceLang |-> Langs[c].sourceLang,
           targetLang |-> Langs[c].targetLang]]
  /\ OrchIdle
  /\ TagIdle

\* ------------------------------------------------------------------------
\* The platform: a human posts a message, edits one, a copy gets deleted
\* ------------------------------------------------------------------------
Humans == {m \in 1..Len(messages) : ~messages[m].bot}

\* what a new message-created event starts from
PendingExec == [pc |-> "pending", branches |-> <<>>]

\* the Message of a human's post
HumanMessage(c, post, ref) ==
  [channelId |-> c, authorId |-> UserId, bot |-> FALSE, webhook |-> FALSE,
   content |-> post.content, sticker |-> post.sticker, reference |-> ref,
   deleted |-> FALSE, origin |-> 0, original |-> post.content]

\* the Message webhook.send resolves to
WebhookMessage(c, text, m) ==
  [channelId |-> c, authorId |-> WebhookUserId, bot |-> TRUE, webhook |-> TRUE,
   content |-> text, sticker |-> FALSE, reference |-> 0,
   deleted |-> FALSE, origin |-> m, original |-> text]

\* the platform takes the post and emits message-created
Posted(c, post, ref) ==
  /\ Len(messages) < MaxMsgs
  /\ ref = 0 \/ (ref \in 1..Len(messages) /\ messages[ref].channelId = c
                 /\ ~messages[ref].deleted)
  /\ messages' = Append(messages, HumanMessage(c, post, ref))
  /\ exec' = Append(exec, PendingExec)
  /\ UNCHANGED <<translateChannels, channelLinks, webhookCache, edit, editCount,
                 store, tvars>>

MessageCreate(c, post, ref) ==
  /\ Cardinality(Humans) < MaxHuman
  /\ Posted(c, post, ref)

\* a human replies to a message of the channel
MessageReply(c, post, ref) ==
  /\ ref # 0
  /\ Cardinality({m \in Humans : messages[m].reference # 0}) < MaxReplies
  /\ Posted(c, post, ref)

MessageDelete(m) ==
  /\ m \in 1..Len(messages)
  /\ messages[m].webhook
  /\ Cardinality({k \in 1..Len(messages) : messages[k].deleted}) < MaxDeletes
  /\ messages' = [messages EXCEPT ![m].deleted = TRUE]
  /\ UNCHANGED <<translateChannels, channelLinks, webhookCache, exec, edit,
                 editCount, store, tvars>>

\* ------------------------------------------------------------------------
\* messageCreateTranslate.ts: execute and translateChannel
\* ------------------------------------------------------------------------
\* a branch translateChannel(message, channelId, sourceTrChannel) up to its
\* first await: the channel cache lookup decides whether it goes on
NewBranch(channelId) ==
  [channelId |-> channelId,
   pc |-> IF channelId \in GuildText THEN "webhook" ELSE "done",
   reply |-> 0,
   content |-> [defined |-> FALSE, text |-> <<>>],
   webhookGets |-> 0, translateCalls |-> 0, sends |-> 0,
   failed |-> FALSE, logged |-> FALSE, result |-> 0]

\* the filter with the author comparison turned around
ownWebhook_SelfAuthored(message) ==
  /\ message.authorId = ClientUserId
  /\ message.webhook

\* the guard returning only when both documents are absent
notConfigured_Both(sourceTrChannel, link) == ~sourceTrChannel.ok /\ ~link.ok

\* message.author.id !== client.user.id && message.webhookId, and the owner of
\* the fetched webhook is this client's user
ownWebhook(message) ==
  /\ message.authorId # ClientUserId
  /\ message.webhook

\* !sourceTrChannel || !link
notConfigured(sourceTrChannel, link) == ~sourceTrChannel.ok \/ ~link.ok

\* execute up to Promise.all: the webhook filter and the source lookups, with
\* fetchWebhook and the two cache lookups answering; the synchronous head of
\* every translateChannel call runs in the same step
ExecuteCreate(m) ==
  /\ m \in 1..Len(messages)
  /\ exec[m].pc = "pending"
  /\ LET message == messages[m]
         sourceTrChannel == translateChannels[message.channelId]
         link == channelLinks[message.channelId]
     IN exec' = [exec EXCEPT ![m] =
          IF ownWebhook(message) THEN [pc |-> "ignored", branches |-> <<>>]
          ELSE IF notConfigured(sourceTrChannel, link)
               THEN [pc |-> "silent", branches |-> <<>>]
               ELSE [pc |-> "fanout",
                     branches |-> [i \in 1..Len(link.links) |->
                                     NewBranch(link.links[i])]]]
  /\ UNCHANGED <<translateChannels, channelLinks, webhookCache, messages, edit,
                 editCount, store, tvars>>

\* the callbacks run one after another: a branch starts its next call only
\* when the branches before it have ended
BranchAt_Sequential(m, i, pc) ==
  /\ m \in 1..Len(messages)
  /\ i \in 1..Len(exec[m].branches)
  /\ exec[m].branches[i].pc = pc
  /\ \A j \in 1..(i - 1) : exec[m].branches[j].pc \in {"done", "rejected"}

BranchAt(m, i, pc) ==
  /\ m \in 1..Len(messages)
  /\ i \in 1..Len(exec[m].branches)
  /\ exec[m].branches[i].pc = pc

\* const webhook = await webhookCache.get(channel), outside the try block
BranchWebhook(m, i) ==
  /\ BranchAt(m, i, "webhook")
  /\ LET b == exec[m].branches[i]
     IN \/ /\ exec' = [exec EXCEPT ![m].branches[i] =
                         [b EXCEPT !.pc = "config", !.webhookGets = @ + 1]]
           /\ webhookCache' = webhookCache \cup {b.channelId}
        \/ /\ exec' = [exec EXCEPT ![m].branches[i] =
                         [b EXCEPT !.pc = "rejected", !.webhookGets = @ + 1,
                                   !.failed = TRUE]]
           /\ UNCHANGED webhookCache
  /\ UNCHANGED <<translateChannels, channelLinks, messages, edit, editCount,
                 store, tvars>>

\* const targetTrChannel = await translateChannels.get(channel.id), outside
\* the try block; absent ends the branch
BranchConfig(m, i) ==
  /\ BranchAt(m, i, "config")
  /\ LET b == exec[m].branches[i]
     IN \/ exec' = [exec EXCEPT ![m].branches[i].pc =
                      IF translateChannels[b.channelId].ok THEN "reply" ELSE "done"]
        \/ exec' = [exec EXCEPT ![m].branches[i] =
                      [b EXCEPT !.pc = "rejected", !.failed = TRUE]]
  /\ UNCHANGED <<translateChannels, channelLinks, webhookCache, messages, edit,
                 editCount, store, tvars>>

\* const reply = await buildReplyEmbed(message, channel), inside the try block
BranchReply(m, i) ==
  /\ BranchAt(m, i, "reply")
  /\ LET b == exec[m].branches[i]
         message == messages[m]
         reply == buildReplyEmbed(message, b.channelId)
         caught == [b EXCEPT !.pc = "done", !.failed = TRUE, !.logged = TRUE]
     IN \/ /\ ~reply.throws
           /\ exec' = [exec EXCEPT ![m].branches[i] =
                [b EXCEPT !.reply = reply.message,
                          !.pc = IF message.sticker THEN "send" ELSE "translate",
                          !.content = IF message.sticker
                                      THEN addReplyPing([defined |-> TRUE, text |-> StickerUrl],
                                                        replyAuthorId(reply.message))
                                      ELSE @]]
        \/ /\ reply.throws \/ message.reference # 0
           /\ exec' = [exec EXCEPT ![m].branches[i] = caught]
  /\ UNCHANGED <<translateChannels, channelLinks, webhookCache, messages, edit,
                 editCount, store, tvars>>

\* const translatedContent = await translate(message.content, ...)
BranchTranslate(m, i) ==
  /\ BranchAt(m, i, "translate")
  /\ LET b == exec[m].branches[i]
         message == messages[m]
         sourceTrChannel == translateChannels[message.channelId]
         targetTrChannel == translateChannels[b.channelId]
         translatedContent == translate(message.content, sourceTrChannel.sourceLang,
                                        targetTrChannel.targetLang)
         calls == translateCallsOf(message.content)
     IN \/ exec' = [exec EXCEPT ![m].branches[i] =
                [b EXCEPT !.pc = "send",
                          !.translateCalls = @ + calls,
                          !.content = addReplyPing(translatedContent,
                                                   replyAuthorId(b.reply))]]
        \/ /\ calls > 0    \* translator.translateText throws
           /\ exec' = [exec EXCEPT ![m].branches[i] =
                [b EXCEPT !.pc = "done", !.translateCalls = @ + calls,
                          !.failed = TRUE, !.logged = TRUE]]
  /\ UNCHANGED <<translateChannels, channelLinks, webhookCache, messages, edit,
                 editCount, store, tvars>>

\* return await webhook.send({username, avatarURL, content, files, embeds})
BranchSend(m, i) ==
  /\ BranchAt(m, i, "send")
  /\ LET b == exec[m].branches[i]
     IN \/ /\ Len(messages) < MaxMsgs
           /\ messages' = Append(messages,
                             WebhookMessage(b.channelId, b.content.text, m))
           /\ exec' = Append([exec EXCEPT ![m].branches[i] =
                                [b EXCEPT !.pc = "done", !.sends = @ + 1,
                                          !.result = Len(messages) + 1]],
                             PendingExec)
        \/ /\ exec' = [exec EXCEPT ![m].branches[i] =
                         [b EXCEPT !.pc = "done", !.sends = @ + 1,
                                   !.failed = TRUE, !.logged = TRUE]]
           /\ UNCHANGED messages
  /\ UNCHANGED <<translateChannels, channelLinks, webhookCache, edit, editCount,
                 store, tvars>>

\* a rejected branch rejects Promise.all, and with it execute
CreateReject(m) ==
  /\ m \in 1..Len(messages)
  /\ exec[m].pc = "fanout"
  /\ \E i \in 1..Len(exec[m].branches) : exec[m].branches[i].pc = "rejected"
  /\ exec' = [exec EXCEPT ![m].pc = "rejected"]
  /\ UNCHANGED <<translateChannels, channelLinks, webhookCache, messages, edit,
                 editCount, store, tvars>>

\* the map without filter(Boolean): an entry for every branch
RECURSIVE messagesIdsOf_Unfiltered(_)
messagesIdsOf_Unfiltered(branches) ==
  IF branches = <<>> THEN <<>>
  ELSE <<[messageId |-> Head(branches).result,
          channelId |-> Head(branches).channelId]>>
       \o messagesIdsOf_Unfiltered(Tail(branches))

\* the map taking the channel of the origin message for every copy
RECURSIVE messagesIdsOf_OriginChannel(_)
messagesIdsOf_OriginChannel(branches) ==
  IF branches = <<>> THEN <<>>
  ELSE (IF Head(branches).result # 0
        THEN <<[messageId |-> Head(branches).result,
                channelId |-> messages[messages[Head(branches).result].origin].channelId]>>
        ELSE <<>>) \o messagesIdsOf_OriginChannel(Tail(branches))

\* messages.filter(Boolean).map(m => ({messageId, channelId})), in branch order
RECURSIVE messagesIdsOf(_)
messagesIdsOf(branches) ==
  IF branches = <<>> THEN <<>>
  ELSE (IF Head(branches).result # 0
        THEN <<[messageId |-> Head(branches).result,
                channelId |-> messages[Head(branches).result].channelId]>>
        ELSE <<>>) \o messagesIdsOf(Tail(branches))

\* the MessageLink document execute builds after Promise.all
NewMessageLink(m) ==
  [authorId  |-> messages[m].authorId,
   messageId |-> m,
   channelId |-> messages[m].channelId,
   links     |-> Append(messagesIdsOf(exec[m].branches),
                        [messageId |-> m, channelId |-> messages[m].channelId])]

\* one single-link document saved per entry of the links instead of one document
RECURSIVE perEntry(_, _)
perEntry(doc, links) ==
  IF links = <<>> THEN <<>>
  ELSE <<[doc EXCEPT !.links = <<Head(links)>>]>> \o perEntry(doc, Tail(links))

CreateSave_PerEntry(m) ==
  /\ m \in 1..Len(messages)
  /\ exec[m].pc = "fanout"
  /\ \A i \in 1..Len(exec[m].branches) : exec[m].branches[i].pc = "done"
  /\ \/ /\ store' = store \o perEntry(NewMessageLink(m), NewMessageLink(m).links)
        /\ exec' = [exec EXCEPT ![m].pc = "done"]
     \/ /\ exec' = [exec EXCEPT ![m].pc = "saveFailed"]
        /\ UNCHANGED store
  /\ UNCHANGED <<translateChannels, channelLinks, webhookCache, messages, edit,
                 editCount, tvars>>

\* the document saved without waiting for the branches
CreateSave_Early(m) ==
  /\ m \in 1..Len(messages)
  /\ exec[m].pc = "fanout"
  /\ \/ /\ store' = Append(store, NewMessageLink(m))
        /\ exec' = [exec EXCEPT ![m].pc = "done"]
     \/ /\ exec' = [exec EXCEPT ![m].pc = "saveFailed"]
        /\ UNCHANGED store
  /\ UNCHANGED <<translateChannels, channelLinks, webhookCache, messages, edit,
                 editCount, tvars>>

\* execute after Promise.all resolved: build the document and save it
CreateSave(m) ==
  /\ m \in 1..Len(messages)
  /\ exec[m].pc = "fanout"
  /\ \A i \in 1..Len(exec[m].branches) : exec[m].branches[i].pc = "done"
  /\ \/ /\ store' = Append(store, NewMessageLink(m))
        /\ exec' = [exec EXCEPT ![m].pc = "done"]
     \/ /\ exec' = [exec EXCEPT ![m].pc = "saveFailed"]  \* messageLink.save() throws
        /\ UNCHANGED store
  /\ UNCHANGED <<translateChannels, channelLinks, webhookCache, messages, edit,
                 editCount, tvars>>

\* ------------------------------------------------------------------------
\* messageUpdateTranslate.ts: execute
\* ------------------------------------------------------------------------
RECURSIVE getMessagesFromMessageLink(_, _)
\* getMessagesFromMessageLink(link, newMessage.id, guild): the linked messages
\* of the other channels, fetched; an entry whose message is gone is null
getMessagesFromMessageLink(links, messageId) ==
  IF links = <<>> THEN <<>>
  ELSE (IF Head(links).messageId = messageId THEN <<>>
        ELSE <<[messageId |-> Head(links).messageId,
                channelId |-> Head(links).channelId,
                null |-> messages[Head(links).messageId].deleted]>>)
       \o getMessagesFromMessageLink(Tail(links), messageId)

\* one callback of messages.map up to its first await
NewEditBranch(entry) ==
  [messageId |-> entry.messageId,
   channelId |-> entry.channelId,
   pc |-> IF entry.null \/ ~messages[entry.messageId].webhook
          THEN "done" ELSE "config",
   content |-> [defined |-> FALSE, text |-> <<>>],
   translateCalls |-> 0, webhookGets |-> 0, editCalls |-> 0, edited |-> 0,
   failed |-> entry.null, logged |-> entry.null]

\* the platform delivers a message-updated event carrying the new content (a
\* human changed the content; for a bot's message the event carries what it
\* has), and execute runs up to Promise.all: the guards, the link and source
\* lookups and the fetch of the linked messages
ExecuteUpdate(m, edited) ==
  /\ m \in 1..Len(messages)
  /\ ~messages[m].deleted
  /\ edit.pc \in {"idle", "noop", "done"}
  /\ editCount < MaxEdits
  /\ editCount' = editCount + 1
  /\ LET newMessage == messages[m]
         content == IF newMessage.bot THEN newMessage.content ELSE edited
         link == findByMessageId(store, m)
         sourceTrChannel == translateChannels[newMessage.channelId]
         event == [pc |-> "noop", messageId |-> m, content |-> content,
                   branches |-> <<>>]
     IN /\ messages' = [messages EXCEPT ![m].content = content]
        /\ edit' =
          IF \/ newMessage.bot
             \/ content = <<>>
             \/ link = 0
             \/ ~sourceTrChannel.ok
          THEN event
          ELSE LET fetched == getMessagesFromMessageLink(store[link].links, m)
               IN [event EXCEPT !.pc = "fanout",
                     !.branches = [i \in 1..Len(fetched) |-> NewEditBranch(fetched[i])]]
  /\ UNCHANGED <<translateChannels, channelLinks, webhookCache, exec, store, tvars>>

EditAt(i, pc) ==
  /\ edit.pc = "fanout"
  /\ i \in 1..Len(edit.branches)
  /\ edit.branches[i].pc = pc

\* the callback going on to translate without the target config check
EditConfig_NoCheck(i) ==
  /\ EditAt(i, "config")
  /\ edit' = [edit EXCEPT !.branches[i].pc = "translate"]
  /\ UNCHANGED <<translateChannels, channelLinks, webhookCache, messages, exec,
                 editCount, store, tvars>>

\* const targetTrChannel = await translateChannels.get(message.channelId)
EditConfig(i) ==
  /\ EditAt(i, "config")
  /\ edit' = [edit EXCEPT !.branches[i].pc =
                IF translateChannels[edit.branches[i].channelId].ok
                THEN "translate" ELSE "done"]
  /\ UNCHANGED <<translateChannels, channelLinks, webhookCache, messages, exec,
                 editCount, store, tvars>>

\* const translatedContent = await translateContent(newMessage.content, ...)
EditTranslate(i) ==
  /\ EditAt(i, "translate")
  /\ LET b == edit.branches[i]
         sourceTrChannel == translateChannels[messages[edit.messageId].channelId]
         targetTrChannel == translateChannels[b.channelId]
         translatedContent == translate(edit.content, sourceTrChannel.sourceLang,
                                        targetTrChannel.targetLang)
         calls == translateCallsOf(edit.content)
     IN \/ edit' = [edit EXCEPT !.branches[i] =
                      [b EXCEPT !.pc = "webhook", !.translateCalls = @ + calls,
                                !.content = translatedContent]]
        \/ /\ calls > 0    \* the provider throws
           /\ edit' = [edit EXCEPT !.branches[i] =
                         [b EXCEPT !.pc = "done", !.translateCalls = @ + calls,
                                   !.failed = TRUE, !.logged = TRUE]]
  /\ UNCHANGED <<translateChannels, channelLinks, webhookCache, messages, exec,
                 editCount, store, tvars>>

\* const webhook = await webhookCache.get(message.channel), inside the try block
EditWebhook(i) ==
  /\ EditAt(i, "webhook")
  /\ LET b == edit.branches[i]
     IN \/ /\ edit' = [edit EXCEPT !.branches[i] =
                         [b EXCEPT !.pc = "edit", !.webhookGets = @ + 1]]
           /\ webhookCache' = webhookCache \cup {b.channelId}
        \/ /\ edit' = [edit EXCEPT !.branches[i] =
                         [b EXCEPT !.pc = "done", !.webhookGets = @ + 1,
                                   !.failed = TRUE, !.logged = TRUE]]
           /\ UNCHANGED webhookCache
  /\ UNCHANGED <<translateChannels, channelLinks, messages, exec, editCount,
                 store, tvars>>

\* the links of a document without the entry of a message
RECURSIVE withoutLink(_, _)
withoutLink(links, messageId) ==
  IF links = <<>> THEN <<>>
  ELSE (IF Head(links).messageId = messageId THEN <<>> ELSE <<Head(links)>>)
       \o withoutLink(Tail(links), messageId)

\* editMessage whose failure drops the copy from the link document
EditMessage_Prune(i) ==
  /\ EditAt(i, "edit")
  /\ LET b == edit.branches[i]
         d == findByMessageId(store, edit.messageId)
     IN \/ /\ ~messages[b.messageId].deleted
           /\ messages' = [messages EXCEPT ![b.messageId].content =
                             IF b.content.defined THEN b.content.text ELSE @]
           /\ edit' = [edit EXCEPT !.branches[i] =
                         [b EXCEPT !.pc = "done", !.editCalls = @ + 1,
                                   !.edited = @ + 1]]
           /\ UNCHANGED store
        \/ /\ edit' = [edit EXCEPT !.branches[i] =
                         [b EXCEPT !.pc = "done", !.editCalls = @ + 1,
                                   !.failed = TRUE, !.logged = TRUE]]
           /\ store' = [store EXCEPT ![d].links = withoutLink(@, b.messageId)]
           /\ UNCHANGED messages
  /\ UNCHANGED <<translateChannels, channelLinks, webhookCache, exec, editCount,
                 tvars>>

\* editMessage outside any try block: its failure rejects Promise.all
EditMessage_Uncaught(i) ==
  /\ EditAt(i, "edit")
  /\ LET b == edit.branches[i]
     IN \/ /\ ~messages[b.messageId].deleted
           /\ messages' = [messages EXCEPT ![b.messageId].content =
                             IF b.content.defined THEN b.content.text ELSE @]
           /\ edit' = [edit EXCEPT !.branches[i] =
                         [b EXCEPT !.pc = "done", !.editCalls = @ + 1,
                                   !.edited = @ + 1]]
        \/ /\ edit' = [edit EXCEPT !.pc = "rejected", !.branches[i] =
                         [b EXCEPT !.pc = "done", !.editCalls = @ + 1,
                                   !.failed = TRUE]]
           /\ UNCHANGED messages
  /\ UNCHANGED <<translateChannels, channelLinks, webhookCache, exec, editCount,
                 store, tvars>>

\* await webhook.editMessage(message.id, {content: translatedContent}); a
\* content of undefined leaves the content of the message as it is
EditMessage(i) ==
  /\ EditAt(i, "edit")
  /\ LET b == edit.branches[i]
     IN \/ /\ ~messages[b.messageId].deleted
           /\ messages' = [messages EXCEPT ![b.messageId].content =
                             IF b.content.defined THEN b.content.text ELSE @]
           /\ edit' = [edit EXCEPT !.branches[i] =
                         [b EXCEPT !.pc = "done", !.editCalls = @ + 1,
                                   !.edited = @ + 1]]
        \/ /\ edit' = [edit EXCEPT !.branches[i] =
                         [b EXCEPT !.pc = "done", !.editCalls = @ + 1,
                                   !.failed = TRUE, !.logged = TRUE]]
           /\ UNCHANGED messages
  /\ UNCHANGED <<translateChannels, channelLinks, webhookCache, exec, editCount,
                 store, tvars>>

\* Promise.all resolved: execute returns
UpdateJoin ==
  /\ edit.pc = "fanout"
  /\ \A i \in 1..Len(edit.branches) : edit.branches[i].pc = "done"
  /\ edit' = [edit EXCEPT !.pc = "done"]
  /\ UNCHANGED <<translateChannels, channelLinks, webhookCache, messages, exec,
                 editCount, store, tvars>>

\* ------------------------------------------------------------------------
\* The relay
\* ------------------------------------------------------------------------
MsgIds == 1..MaxMsgs

\* the longest links array of the topologies
LinkCounts == {Len(t[c].links) : t \in Topologies, c \in Channels}

BranchIds == 1..(CHOOSE n \in LinkCounts : \A k \in LinkCounts : k <= n)

Refs == 0..MaxMsgs

Next ==
  \/ \E c \in Channels, post \in Posts, ref \in Refs : MessageCreate(c, post, ref)
  \/ \E m \in MsgIds : MessageDelete(m)
  \/ \E m \in MsgIds : ExecuteCreate(m)
  \/ \E m \in MsgIds, i \in BranchIds : BranchWebhook(m, i)
  \/ \E m \in MsgIds, i \in BranchIds : BranchConfig(m, i)
  \/ \E m \in MsgIds, i \in BranchIds : BranchReply(m, i)
  \/ \E m \in MsgIds, i \in BranchIds : BranchTranslate(m, i)
  \/ \E m \in MsgIds, i \in BranchIds : BranchSend(m, i)
  \/ \E m \in MsgIds : CreateReject(m)
  \/ \E m \in MsgIds : CreateSave(m)
  \/ \E m \in MsgIds, content \in EditContents : ExecuteUpdate(m, content)
  \/ \E i \in 1..MaxMsgs : EditConfig(i)
  \/ \E i \in 1..MaxMsgs : EditTranslate(i)
  \/ \E i \in 1..MaxMsgs : EditWebhook(i)
  \/ \E i \in 1..MaxMsgs : EditMessage(i)
  \/ UpdateJoin

Spec == Init /\ [][Next]_vars

\* ------------------------------------------------------------------------
\* The relay after a first message: a human's text in c1 has been relayed
\* (LinkedStates are states of Spec), configs may have been removed since
\* ------------------------------------------------------------------------
LinkedPost == [content |-> <<"a", "<", "@", "1", ">">>, sticker |-> FALSE]

\* the branch of the first message for channel c as it ends after its send
SendingBranch(c) ==
  [NewBranch(c) EXCEPT
     !.pc = "done",
     !.content = translate(LinkedPost.content, Langs["c1"].sourceLang,
                           Langs[c].targetLang),
     !.webhookGets = 1, !.translateCalls = 1, !.sends = 1]

SentBranch(c, k) == [SendingBranch(c) EXCEPT !.result = k]

UnsentBranch(c) == [SendingBranch(c) EXCEPT !.failed = TRUE, !.logged = TRUE]

LinkedCopy(c) == WebhookMessage(c, SendingBranch(c).content.text, 1)

IgnoredExec == [pc |-> "ignored", branches |-> <<>>]

LinkedDoc(links) ==
  [authorId |-> UserId, messageId |-> 1, channelId |-> "c1", links |-> links]

\* both copies posted and the record saved; the send to c3 failed and the
\* record saved; the send to c3 failed and the save failed
LinkedStates ==
  { [messages |-> <<HumanMessage("c1", LinkedPost, 0), LinkedCopy("c2"),
                    LinkedCopy("c3")>>,
     exec |-> <<[pc |-> "done",
                 branches |-> <<SentBranch("c2", 2), SentBranch("c3", 3)>>],
                IgnoredExec, IgnoredExec>>,
     store |-> <<LinkedDoc(<<[messageId |-> 2, channelId |-> "c2"],
                             [messageId |-> 3, channelId |-> "c3"],
                             [messageId |-> 1, channelId |-> "c1"]>>)>>],
    [messages |-> <<HumanMessage("c1", LinkedPost, 0), LinkedCopy("c2")>>,
     exec |-> <<[pc |-> "done",
                 branches |-> <<SentBranch("c2", 2), UnsentBranch("c3")>>],
                IgnoredExec>>,
     store |-> <<LinkedDoc(<<[messageId |-> 2, channelId |-> "c2"],
                             [messageId |-> 1, channelId |-> "c1"]>>)>>],
    [messages |-> <<HumanMessage("c1", LinkedPost, 0), LinkedCopy("c2")>>,
     exec |-> <<[pc |-> "saveFailed",
                 branches |-> <<SentBranch("c2", 2), UnsentBranch("c3")>>],
                IgnoredExec>>,
     store |-> <<>>] }

\* the configs that are left
LinkedConfigured ==
  {{"c1", "c2", "c3"}, {"c1", "c2"}, {"c1", "c3"}, {"c2", "c3"}}

InitLinked ==
  /\ \E t \in Topologies : channelLinks = t
  /\ \E cfg \in LinkedConfigured :
       translateChannels = [c \in Channels |->
          [ok |-> c \in cfg,
           sourceLang |-> Langs[c].sourceLang,
           targetLang |-> Langs[c].targetLang]]
  /\ \E s \in LinkedStates :
       /\ messages = s.messages
       /\ exec = s.exec
       /\ store = s.store
  /\ webhookCache = {"c2", "c3"}
  /\ edit = IdleEdit
  /\ editCount = 0
  /\ TagIdle

\* a human replies to one of the messages and the reply is relayed
NextReply ==
  \/ \E c \in Channels, post \in ReplyPosts, ref \in Refs : MessageReply(c, post, ref)
  \/ \E m \in MsgIds : MessageDelete(m)
  \/ \E m \in MsgIds : ExecuteCreate(m)
  \/ \E m \in MsgIds, i \in BranchIds : BranchWebhook(m, i)
  \/ \E m \in MsgIds, i \in BranchIds : BranchConfig(m, i)
  \/ \E m \in MsgIds, i \in BranchIds : BranchReply(m, i)
  \/ \E m \in MsgIds, i \in BranchIds : BranchTranslate(m, i)
  \/ \E m \in MsgIds, i \in BranchIds : BranchSend(m, i)
  \/ \E m \in MsgIds : CreateReject(m)
  \/ \E m \in MsgIds : CreateSave(m)

SpecReply == InitLinked /\ [][NextReply]_vars

\* a human edits one of the messages
NextEdit ==
  \/ \E m \in MsgIds : MessageDelete(m)
  \/ \E m \in MsgIds, content \in EditContents : ExecuteUpdate(m, content)
  \/ \E i \in 1..MaxMsgs : EditConfig(i)
  \/ \E i \in 1..MaxMsgs : EditTranslate(i)
  \/ \E i \in 1..MaxMsgs : EditWebhook(i)
  \/ \E i \in 1..MaxMsgs : EditMessage(i)
  \/ UpdateJoin

SpecEdit == InitLinked /\ [][NextEdit]_vars

\* ------------------------------------------------------------------------
\* State of the transcoder harness: one string taken through encode/decode
\* ------------------------------------------------------------------------
InitTag ==
  /\ tpc = "input"
  /\ tmessage \in Strings(MaxLen)
  /\ tencoded = NoEncoded
  /\ tdecoded = <<>>
  /\ OrchIdle
  /\ translateChannels = [c \in Channels |->
        [ok |-> FALSE, sourceLang |-> Langs[c].sourceLang,
         targetLang |-> Langs[c].targetLang]]
  /\ channelLinks = [c \in Channels |-> NoLink]

\* const [encodedText, tagTable] = tagTranscoder.encode(message)
Encode ==
  /\ tpc = "input"
  /\ tencoded' = encode(tmessage)
  /\ tpc' = "encoded"
  /\ UNCHANGED <<tmessage, tdecoded, ovars>>

\* tagTranscoder.decode(encodedText, tagTable) on the unmodified output
Decode ==
  /\ tpc = "encoded"
  /\ tdecoded' = decode(tencoded.text, tencoded.tagTable)
  /\ tpc' = "decoded"
  /\ UNCHANGED <<tmessage, tencoded, ovars>>

NextTag == Encode \/ Decode

SpecTag == InitTag /\ [][NextTag]_vars

\* ------------------------------------------------------------------------
\* The transcoder around the translator: the text that comes back from
\* translator.translateText need not be the text that was sent
\* ------------------------------------------------------------------------
\* messages with no tag, one tag, two tags
DecodeInputs ==
  { <<"a">>,
    <<"<", "@", "1", ">", "a">>,
    <<"<", "@", "1", ">", "a", "<", ":", ">">> }

\* what the returned text is made of: words, placeholders (those of the
\* table and one beyond it), a tag that was never encoded
OutputPieces ==
  {<<"a">>, <<"<", "@", "1", ">">>}
    \cup {<<"<", ":">> \o numberToString(n) \o <<">">> : n \in 0..MaxKeys}

Outputs ==
  {join(p) : p \in UNION {[1..n -> OutputPieces] : n \in 0..MaxPieces}}

InitDecode ==
  /\ tpc = "input"
  /\ tmessage \in DecodeInputs
  /\ tencoded = NoEncoded
  /\ tdecoded = <<>>
  /\ OrchIdle
  /\ translateChannels = [c \in Channels |->
        [ok |-> FALSE, sourceLang |-> Langs[c].sourceLang,
         targetLang |-> Langs[c].targetLang]]
  /\ channelLinks = [c \in Channels |-> NoLink]

\* const translated = (await translator.translateText(encoded, ...)).text
Translated(out) ==
  /\ tpc = "encoded"
  /\ tencoded' = [tencoded EXCEPT !.text = out]
  /\ tpc' = "translated"
  /\ UNCHANGED <<tmessage, tdecoded, ovars>>

\* return tagTranscoder.decode(translated, tagTable)
DecodeTranslated ==
  /\ tpc = "translated"
  /\ tdecoded' = decode(tencoded.text, tencoded.tagTable)
  /\ tpc' = "decoded"
  /\ UNCHANGED <<tmessage, tencoded, ovars>>

NextDecode ==
  \/ Encode
  \/ \E out \in Outputs : Translated(out)
  \/ DecodeTranslated

SpecDecode == InitDecode /\ [][NextDecode]_vars

\* ------------------------------------------------------------------------
\* Vocabulary of the properties
\* ------------------------------------------------------------------------
Msgs == 1..Len(messages)

\* the messages posted by the branches of the orchestration of message m
CopiesOf(m) == {k \in Msgs : messages[k].origin = m}

\* the documents of the collection whose origin message is m
RecordsOf(m) == {d \in 1..Len(store) : store[d].messageId = m}

EntryOf(k) == [messageId |-> k, channelId |-> messages[k].channelId]

LinkSet(d) == {store[d].links[j] : j \in 1..Len(store[d].links)}

Branches(m) == 1..Len(exec[m].branches)

EditBranches == 1..Len(edit.branches)

\* the text the provider returns for a content whose tokens all survive
Translation(content, origin, target) ==
  translateText(content, Langs[origin].sourceLang, Langs[target].targetLang)

\* ------------------------------------------------------------------------
\* C1 as stated: once the orchestration of a message has persisted its
\* document, the list of the document holds exactly the successfully posted
\* copies and nothing else (one target failed of two: length 1).
\* ------------------------------------------------------------------------
CopiesListOnlyCopies ==
  \A m \in Msgs : exec[m].pc = "done" =>
    \A d \in RecordsOf(m) :
      /\ LinkSet(d) = {EntryOf(k) : k \in CopiesOf(m)}
      /\ Len(store[d].links) = Cardinality(CopiesOf(m))

\* ------------------------------------------------------------------------
\* C1 amended: every target whose calls did not fail receives its post, and
\* the list of the persisted document holds exactly the successfully posted
\* copies followed by one entry for the origin message itself, with no entry
\* for a failed target (one target failed of two: length 2).
\* ------------------------------------------------------------------------
LinksAreCopiesPlusOrigin ==
  \A m \in Msgs : exec[m].pc = "done" =>
    /\ RecordsOf(m) # {}
    /\ \A d \in RecordsOf(m) :
         /\ LinkSet(d) = {EntryOf(k) : k \in CopiesOf(m)} \cup {EntryOf(m)}
         /\ Len(store[d].links) = Cardinality(CopiesOf(m)) + 1
         /\ store[d].links[Len(store[d].links)] = EntryOf(m)
         /\ \A i \in Branches(m) :
              exec[m].branches[i].failed =>
                \A j \in 1..Len(store[d].links) :
                   store[d].links[j].channelId # exec[m].branches[i].channelId
    /\ \A i \in Branches(m) :
         LET b == exec[m].branches[i]
         IN (/\ ~b.failed
             /\ b.channelId \in GuildText
             /\ translateChannels[b.channelId].ok)
            => \E k \in CopiesOf(m) :
                  /\ messages[k].channelId = b.channelId
                  /\ b.result = k

\* two targets, the translate call of one failed, the other was posted
PartialFailureWitness ==
  \E m \in Msgs :
    /\ exec[m].pc = "done"
    /\ Len(exec[m].branches) = 2
    /\ \E i, j \in Branches(m) :
         /\ exec[m].branches[i].failed
         /\ exec[m].branches[i].translateCalls = 1
         /\ exec[m].branches[i].sends = 0
         /\ exec[m].branches[j].result # 0
    /\ \E d \in RecordsOf(m) : Len(store[d].links) = 2

\* ------------------------------------------------------------------------
\* C2: the failure of any collaborator call of a branch stays in the branch:
\* no branch and no orchestration ends rejected; only a failure of save
\* propagates out of execute.
\* ------------------------------------------------------------------------
BranchFailureContained ==
  \A m \in Msgs :
    /\ exec[m].pc \in {"pending", "ignored", "silent", "fanout", "done", "saveFailed"}
    /\ \A i \in Branches(m) : exec[m].branches[i].pc # "rejected"

\* ------------------------------------------------------------------------
\* C3: a message whose origin channel has no translation config or no
\* topology entry causes no post, no translate call and no link document.
\* ------------------------------------------------------------------------
UnconfiguredOriginSilent ==
  \A m \in Msgs :
    (/\ ~messages[m].webhook
     /\ \/ ~translateChannels[messages[m].channelId].ok
        \/ ~channelLinks[messages[m].channelId].ok)
    => /\ exec[m].pc \in {"pending", "silent"}
       /\ CopiesOf(m) = {}
       /\ RecordsOf(m) = {}
       /\ \A i \in Branches(m) :
            /\ exec[m].branches[i].translateCalls = 0
            /\ exec[m].branches[i].sends = 0

\* the event of a message in a channel with a config but no topology entry
\* has been processed
UnconfiguredOriginWitness ==
  \E m \in Msgs :
    /\ exec[m].pc = "silent"
    /\ translateChannels[messages[m].channelId].ok
    /\ ~channelLinks[messages[m].channelId].ok

\* ------------------------------------------------------------------------
\* C4: no step of the message-updated orchestration creates, deletes or
\* modifies a link document.
\* ------------------------------------------------------------------------
EditLeavesStoreUnchanged == [][edit' # edit => store' = store]_vars

\* an edit fan-out has completed with one copy edited and one copy failed
EditFrameWitness ==
  /\ edit.pc = "done"
  /\ store # <<>>
  /\ \E i, j \in EditBranches :
       /\ edit.branches[i].edited = 1
       /\ edit.branches[j].failed
       /\ edit.branches[j].editCalls = 1

\* ------------------------------------------------------------------------
\* C5 as stated: when an edit with non-empty content completes with every
\* target config present and every call answered, every copy of the record
\* received exactly one editMessage, addressed to it, carrying the
\* translation of the new content into the language of its channel.
\* ------------------------------------------------------------------------
AllCallsAnswered ==
  /\ edit.pc = "done"
  /\ edit.content # <<>>
  /\ \A i \in EditBranches :
       /\ ~edit.branches[i].failed
       /\ translateChannels[edit.branches[i].channelId].ok

EveryCopyEdited ==
  \A d \in RecordsOf(edit.messageId) :
    \A l \in LinkSet(d) \ {EntryOf(edit.messageId)} :
      /\ Cardinality({i \in EditBranches :
                        /\ edit.branches[i].messageId = l.messageId
                        /\ edit.branches[i].channelId = l.channelId}) = 1
      /\ \A i \in EditBranches :
           edit.branches[i].messageId = l.messageId =>
             LET b == edit.branches[i]
                 expected == Translation(edit.content,
                                         messages[edit.messageId].channelId,
                                         l.channelId)
             IN /\ b.editCalls = 1
                /\ b.edited = 1
                /\ b.content.defined
                /\ b.content.text = expected
                /\ messages[l.messageId].content = expected

OwnCopiesNotRelayed ==
  /\ \A k \in Msgs :
       messages[k].webhook =>
         /\ exec[k].pc \in {"pending", "ignored"}
         /\ exec[k].branches = <<>>
         /\ CopiesOf(k) = {}
         /\ RecordsOf(k) = {}
  /\ \A m \in Msgs, c \in Channels :
       Cardinality({k \in CopiesOf(m) : messages[k].channelId = c}) <= 1

\* the event of a copy posted into a configured channel that links back to
\* the origin channel has been processed
OwnCopyIgnoredWitness ==
  \E k \in Msgs :
    /\ messages[k].webhook
    /\ exec[k].pc = "ignored"
    /\ translateChannels[messages[k].channelId].ok
    /\ channelLinks[messages[k].channelId].ok
    /\ \E j \in 1..Len(channelLinks[messages[k].channelId].links) :
         channelLinks[messages[k].channelId].links[j] =
           messages[messages[k].origin].channelId

\* ------------------------------------------------------------------------
\* C10: the collection never holds two documents of the same origin
\* message, and holds exactly one for a message whose create orchestration
\* has returned from its fan-out and save.
\* ------------------------------------------------------------------------
OneRecordPerOrigin ==
  /\ \A m \in Msgs :
       /\ Cardinality(RecordsOf(m)) <= 1
       /\ exec[m].pc = "done" <=> Cardinality(RecordsOf(m)) = 1
  /\ \A d \in 1..Len(store) : store[d].messageId \in Msgs

\* a message was relayed and persisted, its copy's event and an edit of it
\* were processed afterwards
OneRecordWitness ==
  \E m \in Msgs :
    /\ exec[m].pc = "done"
    /\ Cardinality(RecordsOf(m)) = 1
    /\ edit.pc = "done" /\ edit.messageId = m
    /\ \E k \in CopiesOf(m) : exec[k].pc = "ignored"

\* ------------------------------------------------------------------------
\* C7: decoding the unmodified output of encode(s) with the table returned
\* by encode(s) yields exactly s, for every string s.
\* ------------------------------------------------------------------------
RoundTrip == tpc = "decoded" => tdecoded = tmessage

\* a string of an empty emote-shaped tag next to an empty mention-shaped tag
\* went through encode and decode
RoundTripWitness ==
  /\ tpc = "decoded"
  /\ tmessage = <<"<", ":", ">", "<", "@", ">">>
  /\ tencoded.text # tmessage

\* ------------------------------------------------------------------------
\* C8: for an input with k tokens matched left to right, the encoded text
\* is the input with the i-th token replaced by "<:i>" and every literal
\* span unchanged, and the table has exactly the k entries "<:i>" -> i-th
\* token; for k = 0 the text is the input and the table is empty.
\* ------------------------------------------------------------------------
Placeholder(i) == <<"<", ":">> \o numberToString(i) \o <<">">>

RECURSIVE ShapeFrom(_, _, _)
\* the literal span before the i-th match, its placeholder, and the rest
ShapeFrom(s, ms, i) ==
  LET from == IF i = 1 THEN 0 ELSE ms[i - 1].index + ms[i - 1].length
  IN IF i > Len(ms) THEN substring(s, from, Len(s))
     ELSE substring(s, from, ms[i].index) \o Placeholder(i - 1)
          \o ShapeFrom(s, ms, i + 1)

EncodeShape ==
  tpc \in {"encoded", "decoded"} =>
    LET ms == matchAll(tmessage, 0)
        k == Len(ms)
        table == tencoded.tagTable
    IN /\ tencoded.text = ShapeFrom(tmessage, ms, 1)
       /\ DOMAIN table = {Placeholder(i - 1) : i \in 1..k}
       /\ Cardinality(DOMAIN table) = k
       /\ \A i \in 1..k :
            table[Placeholder(i - 1)] =
              substring(tmessage, ms[i].index, ms[i].index + ms[i].length)
       /\ k = 0 => tencoded.text = tmessage /\ table = EmptyTable
       /\ tmessage = <<"a", "<", "@", "1", ">", "a">> =>
            /\ tencoded.text = <<"a", "<", ":", "0", ">", "a">>
            /\ table = (<<"<", ":", "0", ">">> :> <<"<", "@", "1", ">">>)
       /\ tmessage = <<"<", "@", ">", "<", "@", ">">> =>
            tencoded.text = <<"<", ":", "0", ">", "<", ":", "1", ">">>
       /\ tmessage = <<"a", "<", "@", "1", "a", ">">> =>
            tencoded.text = tmessage /\ table = EmptyTable

\* a string with two adjacent tokens was encoded
EncodeShapeWitness ==
  /\ tpc = "encoded"
  /\ tmessage = <<"<", "@", ">", "<", ":", ">">>
  /\ Len(matchAll(tmessage, 0)) = 2
  /\ Cardinality(DOMAIN tencoded.tagTable) = 2

\* ------------------------------------------------------------------------
\* C11: every persisted link document lists at most one entry per channel.
\* ------------------------------------------------------------------------
OneEntryPerChannel ==
  \A d \in 1..Len(store) :
    \A j, k \in 1..Len(store[d].links) :
      store[d].links[j].channelId = store[d].links[k].channelId => j = k

\* a document with the entries of two copies and of the origin was persisted
OneEntryPerChannelWitness ==
  \E d \in 1..Len(store) :
    /\ Len(store[d].links) = 3
    /\ Cardinality({l.channelId : l \in LinkSet(d)}) = 3


\* ------------------------------------------------------------------------
\* C13: fan-in barrier.  A record of an origin is persisted only after every
\* branch of its event has terminated, and neither orchestration has
\* returned while one of its branches is still running.
Terminated(b) == b.pc \in {"done", "rejected"}

FanInBarrier ==
  /\ \A m \in Msgs :
        /\ RecordsOf(m) # {} => \A i \in Branches(m) : Terminated(exec[m].branches[i])
        /\ exec[m].pc \notin {"pending", "fanout"} =>
             \A i \in Branches(m) : Terminated(exec[m].branches[i])
  /\ edit.pc \in {"done", "noop"} =>
        \A i \in EditBranches : edit.branches[i].pc = "done"

\* ------------------------------------------------------------------------
\* C20: a create branch that ended at the target-config check (no failure,
\* nothing sent) has made no translate call and no webhookCache.get.
SkippedBranch(b) == b.pc = "done" /\ ~b.failed /\ b.sends = 0

ConfigCheckBeforeWebhook ==
  \A m \in Msgs : \A i \in Branches(m) :
    SkippedBranch(exec[m].branches[i]) =>
      /\ exec[m].branches[i].translateCalls = 0
      /\ exec[m].branches[i].webhookGets = 0


\* ------------------------------------------------------------------------
\* C14: branch independence under stalls.  Whatever its siblings are doing
\* (one of them waiting for a call that has not returned), a branch that has
\* not ended can take its next step; and while a branch has not ended the
\* record of its event is not persisted and the edit orchestration does not
\* complete.
\* (the translate steps are total on their guard, which stands for them)
BranchCanStep(m, i) ==
  \/ ENABLED BranchWebhook(m, i)
  \/ ENABLED BranchConfig(m, i)
  \/ ENABLED BranchReply(m, i)
  \/ BranchAt(m, i, "translate")
  \/ ENABLED BranchSend(m, i)

EditCanStep(i) ==
  \/ ENABLED EditConfig(i)
  \/ EditAt(i, "translate")
  \/ ENABLED EditWebhook(i)
  \/ ENABLED EditMessage(i)

Logical(r) == IF messages[r].origin = 0 THEN r ELSE messages[r].origin

FindByCopyOrOrigin ==
  \A r \in Msgs : \A c \in Channels \cup {GoneChannel} :
    IF c = messages[r].channelId /\ RecordsOf(Logical(r)) # {}
    THEN findByLink(store, r, c) \in RecordsOf(Logical(r))
    ELSE findByLink(store, r, c) = 0

\* a reply to a copy whose branch resolved the preview through the record
ReplyToCopyResolvedWitness ==
  \E m \in Msgs : \E i \in Branches(m) :
    /\ messages[m].reference # 0
    /\ messages[messages[m].reference].origin # 0
    /\ exec[m].branches[i].reply = messages[messages[m].reference].origin


\* ------------------------------------------------------------------------
\* C15: an edit event of a bot's message, with empty new content, of a
\* message no record has as its origin, or of an origin whose channel has no
\* config starts no branch, so makes no translate and no editMessage call;
\* and in a fan-out the branch of a copy whose
\* channel has no config makes no translate, webhook or editMessage call.
EditNoOpCase ==
  \/ messages[edit.messageId].bot
  \/ edit.content = <<>>
  \/ findByMessageId(store, edit.messageId) = 0
  \/ ~translateChannels[messages[edit.messageId].channelId].ok

EditNoOp ==
  /\ edit.pc # "idle" /\ EditNoOpCase =>
        /\ edit.pc = "noop"
        /\ edit.branches = <<>>
  /\ \A i \in EditBranches :
        ~translateChannels[edit.branches[i].channelId].ok =>
          /\ edit.branches[i].translateCalls = 0
          /\ edit.branches[i].webhookGets = 0
          /\ edit.branches[i].editCalls = 0
          /\ edit.branches[i].edited = 0

\* the copy of the unconfigured channel was skipped, its sibling was edited
EditSkipWitness ==
  \E i, j \in EditBranches :
    /\ ~translateChannels[edit.branches[i].channelId].ok
    /\ edit.branches[i].pc = "done"
    /\ ~edit.branches[i].failed
    /\ edit.branches[j].edited = 1
    /\ edit.pc = "done"


\* ------------------------------------------------------------------------
\* C16: for a reply whose replied-to message no record contains, or whose
\* record has no entry for the branch's target channel, the branch has no
\* preview; at the preview lookup it can go on without a failure, and when
\* none of its calls fails it ends with its copy posted in the target.
ReplyAbsent(m, c) ==
  LET d == findByLink(store, messages[m].reference, messages[m].channelId)
  IN d = 0 \/ findLink(store[d].links, c) = 0

PreviewNeverBlocks ==
  \A m \in Msgs : \A i \in Branches(m) :
    LET b == exec[m].branches[i]
    IN messages[m].reference # 0 /\ ReplyAbsent(m, b.channelId) =>
         /\ b.reply = 0
         /\ b.pc = "reply" /\ ~messages[messages[m].reference].deleted =>
              ENABLED (BranchReply(m, i) /\ ~exec'[m].branches[i].failed)
         /\ (/\ b.pc = "done" /\ ~b.failed
             /\ b.channelId \in GuildText
             /\ translateChannels[b.channelId].ok) =>
              /\ b.result # 0
              /\ messages[b.result].channelId = b.channelId
              /\ messages[b.result].origin = m
              /\ ~messages[m].sticker => b.translateCalls = translateCallsOf(messages[m].content)

\* the record of the replied-to message has no entry for the target channel
\* and the reply was posted there
NoEntryReplyPostedWitness ==
  \E m \in Msgs : \E i \in Branches(m) :
    /\ messages[m].reference # 0
    /\ findByLink(store, messages[m].reference, messages[m].channelId) # 0
    /\ ReplyAbsent(m, exec[m].branches[i].channelId)
    /\ exec[m].branches[i].result # 0


\* ------------------------------------------------------------------------
\* C17: the copy of a relayed message is posted with the mention of the
\* replied-to author appended to its text exactly when the branch resolved a
\* preview, the message it resolved in the target channel is a human's and
\* the text does not contain that mention; otherwise the text is posted as
\* it is; and the rule applied to its own output changes nothing.
BaseContent(m, c) ==
  IF messages[m].sticker
  THEN [defined |-> TRUE, text |-> StickerUrl]
  ELSE translate(messages[m].content,
                 translateChannels[messages[m].channelId].sourceLang,
                 translateChannels[c].targetLang)

MentionDue(b, base) ==
  /\ b.reply # 0
  /\ ~messages[b.reply].bot
  /\ ~(base.defined /\ includes(base.text, mention(messages[b.reply].authorId)))

ReplyMentionRule ==
  \A m \in Msgs : \A i \in Branches(m) :
    LET b == exec[m].branches[i]
        base == BaseContent(m, b.channelId)
        posted == messages[b.result].original
    IN b.result # 0 =>
         /\ b.reply # 0 =>
               /\ messages[m].reference # 0
               /\ messages[b.reply].channelId = b.channelId
               /\ Logical(b.reply) = Logical(messages[m].reference)
         /\ IF MentionDue(b, base)
            THEN LET ping == mention(messages[b.reply].authorId)
                 IN /\ posted = IF base.text = <<>> THEN ping
                                 ELSE base.text \o <<" ">> \o ping
                    /\ addReplyPing([defined |-> TRUE, text |-> posted],
                                    messages[b.reply].authorId).text = posted
            ELSE posted = base.text

\* a reply whose copy was posted with the mention appended to its text
MentionAppendedWitness ==
  \E m \in Msgs : \E i \in Branches(m) :
    LET b == exec[m].branches[i]
        base == BaseContent(m, b.channelId)
    IN /\ b.result # 0
       /\ MentionDue(b, base)
       /\ base.text # <<>>
       /\ messages[b.result].original =
            base.text \o <<" ">> \o mention(messages[b.reply].authorId)


\* ------------------------------------------------------------------------
\* C18: decode reads the text from left to right; a match of the pattern
\* that is a key of the table becomes its value, a match that is no key
\* becomes the empty string, every other character stays, in order.  So a
\* text of one or two keys decodes to their values in the order and number
\* in which the keys appear.
RECURSIVE DecodedFrom(_, _, _)
DecodedFrom(s, tagTable, p) ==
  IF p >= Len(s) THEN <<>>
  ELSE LET n == DISCORD_TAG_REGEX(s, p)
           key == substring(s, p, p + n)
       IN IF n = 0 THEN <<s[p + 1]>> \o DecodedFrom(s, tagTable, p + 1)
          ELSE (IF key \in DOMAIN tagTable THEN tagTable[key] ELSE <<>>)
               \o DecodedFrom(s, tagTable, p + n)

DecodeFallback ==
  tpc = "decoded" =>
    LET text == tencoded.text
        tagTable == tencoded.tagTable
    IN /\ tdecoded = DecodedFrom(text, tagTable, 0)
       /\ \A k \in DOMAIN tagTable : text = k => tdecoded = tagTable[k]
       /\ \A j, k \in DOMAIN tagTable :
            text = j \o k => tdecoded = tagTable[j] \o tagTable[k]
       /\ \A k \in OutputPieces \ DOMAIN tagTable :
            DISCORD_TAG_REGEX(k, 0) = Len(k) /\ text = <<"a">> \o k \o <<"a">>
              => tdecoded = <<"a", "a">>

\* the two placeholders came back in the other order followed by one that
\* was never issued: the tokens are restored in the new order, the unknown
\* placeholder is gone
DecodeFallbackWitness ==
  /\ tpc = "decoded"
  /\ tmessage = <<"<", "@", "1", ">", "a", "<", ":", ">">>
  /\ tencoded.text = <<"<", ":", "1", ">", "<", ":", "0", ">", "<", ":", "2", ">">>
  /\ tdecoded = <<"<", ":", ">", "<", "@", "1", ">">>


\* ------------------------------------------------------------------------
\* C19 as stated: when the edit of an origin was processed before the record
\* of the origin was persisted, the copies carry, once the record is
\* persisted, the translation of the content the origin was posted with.
\* ------------------------------------------------------------------------
\* the text a copy in channel c is posted with for a content of message m
CopyText(m, content, c) ==
  IF messages[m].sticker THEN StickerUrl
  ELSE IF IsBlank(content) THEN <<>>
  ELSE Translation(content, messages[m].channelId, c)

\* the edit of the human's message m got past the content guard and the
\* source config is there, yet it started no branch
RacedEdit(m) ==
  /\ edit.messageId = m
  /\ edit.pc = "noop"
  /\ ~messages[m].bot
  /\ edit.content # <<>>
  /\ translateChannels[messages[m].channelId].ok

EditRaceKeepsPreEdit ==
  \A m \in Msgs :
    RacedEdit(m) /\ exec[m].pc = "done" =>
      \A k \in CopiesOf(m) :
        messages[k].content = CopyText(m, messages[m].original, messages[k].channelId)

\* C19 as amended: an edit processed while the create orchestration of its
\* message has not persisted the record (not begun, or a branch still
\* running) starts no branch; and after such an edit every copy has the text
\* it was posted with, which (that edit being the only one delivered) is the
\* translation of the content the origin was posted with or of the edited
\* content.
StillCreating(m) ==
  \/ exec[m].pc \in {"pending", "fanout"}
  \/ \E i \in Branches(m) : ~Terminated(exec[m].branches[i])

\* addReplyPing of the branch applied to a text
Pinged(b, text) ==
  addReplyPing([defined |-> TRUE, text |-> text], replyAuthorId(b.reply)).text

CopiesOfEitherContent ==
  \A m \in Msgs :
    RacedEdit(m) =>
      \A i \in Branches(m) :
        LET b == exec[m].branches[i]
        IN b.result # 0 =>
             /\ messages[b.result].content = messages[b.result].original
             /\ editCount = 1 =>
                  messages[b.result].original \in
                    {Pinged(b, CopyText(m, messages[m].original, b.channelId)),
                     Pinged(b, CopyText(m, edit.content, b.channelId))}

EditRacingCreate ==
  [][/\ editCount' # editCount /\ StillCreating(edit'.messageId) =>
          edit'.pc = "noop" /\ edit'.branches = <<>>
     /\ CopiesOfEitherContent']_vars

\* after a raced edit the record is persisted with one copy of the content
\* as posted and one copy of the edited content
EditRaceWitness ==
  \E m \in Msgs :
    /\ RacedEdit(m)
    /\ exec[m].pc = "done"
    /\ \E j, k \in CopiesOf(m) :
         /\ messages[j].content = CopyText(m, messages[m].original, messages[j].channelId)
         /\ messages[k].content = CopyText(m, edit.content, messages[k].channelId)
         /\ messages[j].content # CopyText(m, edit.content, messages[j].channelId)
         /\ messages[k].content # CopyText(m, messages[m].original, messages[k].channelId)

====
